---- MODULE Spec2Model ----
(***************************************************************************)
(* Model of the transfer hub of kmo_comm.c / kmo_comm.h: data transfers,   *)
(* hub membership (kmo_transfer_hub_add / kmo_transfer_hub_remove) and the *)
(* select() based wait loop (kmo_transfer_hub_wait).                       *)
(***************************************************************************)
EXTENDS Integers, FiniteSets, Sequences, TLC

(***************************************************************************)
(* Bounds of the model.                                                    *)
(***************************************************************************)
\* Number of 1 ms clock ticks a behaviour may take.
MaxTicks == 2
\* Second and microsecond at which the clock of a behaviour starts.
StartSec == 1162339200
StartUsec == 998500
\* Microsecond, within the second 2147483647, at which the clock of a behaviour that
\* runs in the last second of a 32 bit time_t starts.
LateUsec == 500

\* The transfer objects the caller owns.
Transfers == {"A", "B"}
\* <<read_flag, fd, <<min_len, max_len>>, op_timeout>>: what the caller may set in a
\* transfer before adding it. A is a read on descriptor 3 or a write on descriptor 4,
\* with no, a 1 ms or a 1001 ms timeout; B is a second read on descriptor 3.
Configs(t) ==
    IF t = "A"
    THEN {<<1, 3, l, tm>> : l \in {<<0, 0>>, <<0, 2>>, <<2, 2>>}, tm \in {0, 1}}
         \cup {<<1, 3, <<2, 2>>, 1001>>, <<1, 3, <<4, 10>>, 0>>}
         \cup {<<0, 4, <<0, 2>>, 1>>, <<0, 4, <<2, 2>>, 1001>>}
    ELSE {<<1, 3, <<2, 2>>, tm>> : tm \in {0, 1}}
\* Number of kmo_transfer_hub_add calls a behaviour may make.
MaxAdds == 2
\* Byte counts a driver may report for one successful call.
Chunks == {0, 2, 4, 6}
\* Error strings a driver may set.
ErrMsgs == {"reset"}

(***************************************************************************)
(* Status codes (kmo_comm.h enum) and driver return codes.                 *)
(***************************************************************************)
KMO_COMM_TRANS_NONE == 0
KMO_COMM_TRANS_PENDING == 1
KMO_COMM_TRANS_COMPLETED == 2
KMO_COMM_TRANS_ERROR == 3

\* err_msg == NULL
NULL == "NULL"
\* Largest tv_sec the hub uses as "no deadline".
TIME_MAX_SEC == 2147483647

(***************************************************************************)
(* struct timeval helpers (utils.h).                                       *)
(***************************************************************************)
USEC_PER_SEC == 1000000

Timeval(s, u) == [tv_sec |-> s, tv_usec |-> u]

util_timeval_cmp(a, b) ==
    IF a.tv_sec < b.tv_sec THEN -1
    ELSE IF a.tv_sec > b.tv_sec THEN 1
    ELSE IF a.tv_usec < b.tv_usec THEN -1
    ELSE IF a.tv_usec > b.tv_usec THEN 1
    ELSE 0

util_timeval_add(a, b) ==
    IF a.tv_usec + b.tv_usec >= USEC_PER_SEC
    THEN Timeval(a.tv_sec + b.tv_sec + 1, a.tv_usec + b.tv_usec - USEC_PER_SEC)
    ELSE Timeval(a.tv_sec + b.tv_sec, a.tv_usec + b.tv_usec)

util_timeval_subtract(a, b) ==
    IF a.tv_usec < b.tv_usec
    THEN Timeval(a.tv_sec - b.tv_sec - 1, a.tv_usec + USEC_PER_SEC - b.tv_usec)
    ELSE Timeval(a.tv_sec - b.tv_sec, a.tv_usec - b.tv_usec)

VARIABLES
    transfers,   \* the kmo_data_transfer objects, by identity
    hub,         \* hub->transfer_hash: the transfers registered in the hub
    pc,          \* "idle", "select" (kmo_transfer_hub_wait blocked in select()) or "aborted"
    sel,         \* the pass in progress: transfer_array and the arguments of select()
    ticks,       \* milliseconds elapsed since the start of the behaviour
    adds,        \* number of kmo_transfer_hub_add calls made so far
    epoch,       \* the wall clock at the start of the behaviour
    last         \* what the previous step did, when it was a step of kmo_transfer_hub_wait

vars == <<transfers, hub, pc, sel, ticks, adds, epoch, last>>

\* util_get_current_time(): the wall clock.
util_get_current_time(tk) ==
    util_timeval_add(epoch, Timeval(0, tk * 1000))

Now == util_get_current_time(ticks)

(***************************************************************************)
(* kmo_data_transfer_init                                                  *)
(***************************************************************************)
kmo_data_transfer_init ==
    [read_flag |-> 0, fd |-> -1, min_len |-> 0, max_len |-> 0, trans_len |-> 0,
     op_timeout |-> 0, status |-> KMO_COMM_TRANS_NONE,
     deadline |-> Timeval(0, 0), err_msg |-> NULL]

NoSel == [transfer_array |-> {}, read_set |-> {}, write_set |-> {}, max_sock |-> 0,
          time_to_wait |-> Timeval(0, 0), now |-> Timeval(0, 0)]

NoLast == [op |-> "none"]

Init ==
    /\ transfers = [t \in Transfers |-> kmo_data_transfer_init]
    /\ hub = {}
    /\ pc = "idle"
    /\ sel = NoSel
    /\ ticks = 0
    /\ adds = 0
    /\ epoch = Timeval(StartSec, StartUsec)
    /\ last = NoLast

(***************************************************************************)
(* kmo_transfer_hub_add                                                    *)
(***************************************************************************)
\* Lines 49-63: the deadline of a transfer whose inactivity clock starts at now.
NewDeadline(op_timeout, now) ==
    IF op_timeout # 0
    THEN util_timeval_add(Timeval(op_timeout \div 1000, (op_timeout % 1000) * 1000), now)
    ELSE Timeval(TIME_MAX_SEC, 0)

\* Variant of AddedTransfer that forgets to reset trans_len.
AddedTransfer_KeepLen(tr, now) ==
    [tr EXCEPT !.status = KMO_COMM_TRANS_PENDING,
               !.deadline = NewDeadline(tr.op_timeout, now),
               !.err_msg = NULL]

\* Variant of AddedTransfer that leaves the error string of an earlier failure.
AddedTransfer_KeepMsg(tr, now) ==
    [tr EXCEPT !.trans_len = 0,
               !.status = KMO_COMM_TRANS_PENDING,
               !.deadline = NewDeadline(tr.op_timeout, now)]

\* The transfer object after kmo_transfer_hub_add.
AddedTransfer(tr, now) ==
    [tr EXCEPT !.trans_len = 0,
               !.status = KMO_COMM_TRANS_PENDING,
               !.deadline = NewDeadline(tr.op_timeout, now),
               !.err_msg = NULL]

\* The caller fills in the fields that must be set prior to the call.
Configured(tr, rf, fd, lens, tmo) ==
    [tr EXCEPT !.read_flag = rf, !.fd = fd, !.min_len = lens[1], !.max_len = lens[2],
               !.op_timeout = tmo]

Add(t, rf, fd, lens, tmo) ==
    /\ pc = "idle"
    /\ adds < MaxAdds
    /\ t \notin hub
    /\ fd # -1
    /\ lens[1] <= lens[2]
    /\ hub' = hub \cup {t}
    /\ transfers' = [transfers EXCEPT
                       ![t] = AddedTransfer(Configured(transfers[t], rf, fd, lens, tmo), Now)]
    /\ adds' = adds + 1
    /\ last' = [op |-> "add", t |-> t, prev |-> transfers[t].status]
    /\ UNCHANGED <<pc, sel, ticks, epoch>>

(***************************************************************************)
(* kmo_transfer_hub_remove                                                 *)
(***************************************************************************)
\* Variant of HubRemove that leaves the transfer in the hash.
HubRemove_Keep(h, t) == h

HubRemove(h, t) == h \ {t}

Remove(t) ==
    /\ pc = "idle"
    /\ hub' = HubRemove(hub, t)
    /\ last' = [op |-> "remove", t |-> t]
    /\ UNCHANGED <<transfers, pc, sel, ticks, adds, epoch>>

(***************************************************************************)
(* The clock.                                                              *)
(***************************************************************************)
Tick ==
    /\ pc # "aborted"
    /\ ticks < MaxTicks
    /\ ticks' = ticks + 1
    /\ last' = NoLast
    /\ UNCHANGED <<transfers, hub, pc, sel, adds, epoch>>

(***************************************************************************)
(* kmo_transfer_hub_wait: the scan of the membership (lines 98-138).       *)
(***************************************************************************)
\* Variant of Selected that takes Pending transfers only.
Selected_PendingOnly(tr) == tr.status = KMO_COMM_TRANS_PENDING

\* Variant of Selected that takes every transfer that is not Completed.
Selected_AlsoErrored(tr) ==
    \/ tr.status = KMO_COMM_TRANS_PENDING
    \/ tr.status = KMO_COMM_TRANS_ERROR
    \/ (tr.status = KMO_COMM_TRANS_COMPLETED /\ tr.min_len < tr.max_len)

\* Lines 109-110: the transfer is unfinished and takes part in the pass.
Selected(tr) ==
    \/ tr.status = KMO_COMM_TRANS_PENDING
    \/ (tr.status = KMO_COMM_TRANS_COMPLETED /\ tr.min_len < tr.max_len)

\* Line 131: transfer_array after the scan.
ScanArray(trs, h) == {t \in h : Selected(trs[t])}

\* Variant of ScanDone that never breaks out of the loop after the scan.
ScanDone_Never(trs, h) == FALSE

\* Lines 103, 113-115: done_flag after the scan.
ScanDone(trs, h) ==
    ~ \E t \in ScanArray(trs, h) : trs[t].status = KMO_COMM_TRANS_PENDING

\* Lines 118-121: the interest sets.
ScanReadSet(trs, h) == {trs[t].fd : t \in {u \in ScanArray(trs, h) : trs[u].read_flag # 0}}
ScanWriteSet(trs, h) == {trs[t].fd : t \in {u \in ScanArray(trs, h) : trs[u].read_flag = 0}}

\* Lines 90, 123: max_sock.
ScanMaxSock(trs, h) ==
    LET S == {trs[t].fd : t \in ScanArray(trs, h)} \cup {0}
    IN CHOOSE m \in S : \A x \in S : x <= m

\* Lines 94, 125-128: the earliest deadline of the selected transfers.
ScanDeadline(trs, h) ==
    LET S == {trs[t].deadline : t \in ScanArray(trs, h)} \cup {Timeval(TIME_MAX_SEC, 0)}
    IN CHOOSE d \in S : \A e \in S : util_timeval_cmp(d, e) <= 0

\* Variant of TimeToWait without the one millisecond floor.
TimeToWait_NoFloor(now, deadline) == util_timeval_subtract(deadline, now)

\* Lines 140-154: the duration handed to select().
TimeToWait(now, deadline) ==
    LET min_time == Timeval(0, 1000)
    IN IF util_timeval_cmp(util_timeval_add(now, min_time), deadline) >= 0
       THEN min_time
       ELSE util_timeval_subtract(deadline, now)

\* Lines 98-157: one scan; the call returns (done_flag) or blocks in select().
EnterPass(trs, h, now) ==
    IF ScanDone(trs, h)
    THEN /\ pc' = "idle"
         /\ sel' = NoSel
    ELSE /\ pc' = "select"
         /\ sel' = [transfer_array |-> ScanArray(trs, h),
                    read_set |-> ScanReadSet(trs, h),
                    write_set |-> ScanWriteSet(trs, h),
                    max_sock |-> ScanMaxSock(trs, h),
                    time_to_wait |-> TimeToWait(now, ScanDeadline(trs, h)),
                    now |-> now]

\* The caller invokes kmo_transfer_hub_wait.
Wait ==
    /\ pc = "idle"
    /\ EnterPass(transfers, hub, Now)
    /\ last' = [op |-> "wait", returned |-> ScanDone(transfers, hub)]
    /\ UNCHANGED <<transfers, hub, ticks, adds, epoch>>

(***************************************************************************)
(* kmo_transfer_hub_wait: after select() (lines 159-236).                  *)
(***************************************************************************)
\* What a driver operation asked for nb bytes may answer.
\* (called: the operation was invoked; error: its return code; nb: *len on return;
\* msg: the KMO error string it set)
NoCall == [called |-> FALSE, error |-> 0, nb |-> 0, msg |-> NULL]
DriverOutcomes(nb) ==
    {[called |-> TRUE, error |-> 0, nb |-> n, msg |-> NULL] : n \in {c \in Chunks : c <= nb}}
    \cup {[called |-> TRUE, error |-> -2, nb |-> 0, msg |-> NULL]}
    \cup {[called |-> TRUE, error |-> -1, nb |-> 0, msg |-> m] : m \in ErrMsgs}

\* Line 177, 180: FD_ISSET(transfer->fd, set).
IsReady(tr, R, W) == IF tr.read_flag # 0 THEN tr.fd \in R ELSE tr.fd \in W

\* Variant of DriverCalled without the nb > 0 test.
DriverCalled_Always(tr) == TRUE

\* Lines 182, 186: a driver operation is invoked.
DriverCalled(tr) == tr.max_len - tr.trans_len > 0

\* Variant of Request that asks for max_len bytes whatever was transferred before.
Request_Whole(tr) == [off |-> tr.trans_len, len |-> tr.max_len]

\* Lines 182, 190: what the driver operation is asked for: up to len bytes at
\* transfer->buf + off.
Request(tr) == [off |-> tr.trans_len, len |-> tr.max_len - tr.trans_len]

NoRequest == [off |-> 0, len |-> 0]

\* Lines 182-191: error and nb after the attempt.
Attempt(tr, out) == IF DriverCalled(tr) THEN out ELSE NoCall

\* Variant of ResetDeadline that resets the deadline of Pending transfers only.
ResetDeadline_PendingOnly(tr, now) ==
    IF tr.op_timeout # 0 /\ tr.status = KMO_COMM_TRANS_PENDING
    THEN util_timeval_add(Timeval(tr.op_timeout \div 1000, (tr.op_timeout % 1000) * 1000), now)
    ELSE tr.deadline

\* Lines 217-222: the deadline after a successful attempt.
ResetDeadline(tr, now) ==
    IF tr.op_timeout # 0
    THEN util_timeval_add(Timeval(tr.op_timeout \div 1000, (tr.op_timeout % 1000) * 1000), now)
    ELSE tr.deadline

\* Variant of StatusAfterSuccess that completes only past min_len.
StatusAfterSuccess_Strict(tr, len) ==
    IF tr.status = KMO_COMM_TRANS_PENDING /\ len > tr.min_len
    THEN KMO_COMM_TRANS_COMPLETED
    ELSE tr.status

\* Lines 211-215: the status after a successful attempt.
StatusAfterSuccess(tr, len) ==
    IF tr.status = KMO_COMM_TRANS_PENDING /\ len >= tr.min_len
    THEN KMO_COMM_TRANS_COMPLETED
    ELSE tr.status

\* Variant of ReadyTransfer that assigns nb to trans_len instead of adding it.
ReadyTransfer_Assign(tr, out, now) ==
    LET a == Attempt(tr, out)
    IN IF a.error = -1
       THEN [tr EXCEPT !.status = KMO_COMM_TRANS_ERROR, !.err_msg = a.msg]
       ELSE IF a.error = -2
       THEN tr
       ELSE [tr EXCEPT !.trans_len = a.nb,
                       !.status = StatusAfterSuccess(tr, a.nb),
                       !.deadline = ResetDeadline(tr, now)]

\* Variant of ReadyTransfer in which a driver failure demotes Pending transfers only.
ReadyTransfer_StickyCompleted(tr, out, now) ==
    LET a == Attempt(tr, out)
    IN IF a.error = -1
       THEN IF tr.status = KMO_COMM_TRANS_PENDING
            THEN [tr EXCEPT !.status = KMO_COMM_TRANS_ERROR, !.err_msg = a.msg]
            ELSE tr
       ELSE IF a.error = -2
       THEN tr
       ELSE [tr EXCEPT !.trans_len = tr.trans_len + a.nb,
                       !.status = StatusAfterSuccess(tr, tr.trans_len + a.nb),
                       !.deadline = ResetDeadline(tr, now)]

\* Variant of ReadyTransfer in which a driver that would block restarts the
\* inactivity clock.
ReadyTransfer_WouldBlockResets(tr, out, now) ==
    LET a == Attempt(tr, out)
    IN IF a.error = -1
       THEN [tr EXCEPT !.status = KMO_COMM_TRANS_ERROR, !.err_msg = a.msg]
       ELSE IF a.error = -2
       THEN [tr EXCEPT !.deadline = ResetDeadline(tr, now)]
       ELSE [tr EXCEPT !.trans_len = tr.trans_len + a.nb,
                       !.status = StatusAfterSuccess(tr, tr.trans_len + a.nb),
                       !.deadline = ResetDeadline(tr, now)]

\* Lines 180-224: the transfer is ready.
ReadyTransfer(tr, out, now) ==
    LET a == Attempt(tr, out)
    IN IF a.error = -1
       THEN [tr EXCEPT !.status = KMO_COMM_TRANS_ERROR, !.err_msg = a.msg]
       ELSE IF a.error = -2
       THEN tr
       ELSE [tr EXCEPT !.trans_len = tr.trans_len + a.nb,
                       !.status = StatusAfterSuccess(tr, tr.trans_len + a.nb),
                       !.deadline = ResetDeadline(tr, now)]

\* Variant of Expired that fires at the deadline instead of after it.
Expired_AtDeadline(tr, now) == util_timeval_cmp(tr.deadline, now) <= 0

\* Line 230: the deadline of a transfer that is not ready has passed.
Expired(tr, now) == util_timeval_cmp(tr.deadline, now) = -1

\* Lines 227-235: the transfer is not ready.
NotReadyTransfer(tr, now) ==
    IF Expired(tr, now) THEN [tr EXCEPT !.status = KMO_COMM_TRANS_ERROR] ELSE tr

\* Lines 175-236: one transfer of transfer_array.
PassTransfer(tr, ready, out, now) ==
    IF ready THEN ReadyTransfer(tr, out, now) ELSE NotReadyTransfer(tr, now)

\* Variant of SetsDone in which a timeout does not set done_flag.
SetsDone_NoTimeout(tr, ready, out, now) ==
    /\ ready
    /\ \/ Attempt(tr, out).error = -1
       \/ /\ Attempt(tr, out).error = 0
          /\ tr.status = KMO_COMM_TRANS_PENDING
          /\ tr.trans_len + Attempt(tr, out).nb >= tr.min_len

\* Lines 195, 213, 231: the transfer sets done_flag.
SetsDone(tr, ready, out, now) ==
    IF ready
    THEN \/ Attempt(tr, out).error = -1
         \/ /\ Attempt(tr, out).error = 0
            /\ tr.status = KMO_COMM_TRANS_PENDING
            /\ tr.trans_len + Attempt(tr, out).nb >= tr.min_len
    ELSE Expired(tr, now)

\* Line 233: assert(transfer->err_msg == NULL) fails.
AssertFails(tr, ready, now) == ~ready /\ Expired(tr, now) /\ tr.err_msg # NULL

\* select() returned normally: lines 172-236, then the loop condition and,
\* when no transfer set done_flag, the next scan.
SelectReturn(R, W, drv) ==
    LET arr == sel.transfer_array
        rdy == {t \in arr : IsReady(transfers[t], R, W)}
        new == [t \in Transfers |->
                  IF t \in arr
                  THEN PassTransfer(transfers[t], t \in rdy, drv[t], Now)
                  ELSE transfers[t]]
        done == \E t \in arr : SetsDone(transfers[t], t \in rdy, drv[t], Now)
        bad == \E t \in arr : AssertFails(transfers[t], t \in rdy, Now)
    IN /\ pc = "select"
       /\ \/ R \cup W # {}
          \/ util_timeval_cmp(Now, util_timeval_add(sel.now, sel.time_to_wait)) >= 0
       /\ \A t \in Transfers :
            drv[t] \in IF t \in rdy /\ DriverCalled(transfers[t])
                       THEN DriverOutcomes(Request(transfers[t]).len)
                       ELSE {NoCall}
       /\ transfers' = new
       /\ IF bad
          THEN pc' = "aborted" /\ sel' = NoSel
          ELSE IF done
          THEN pc' = "idle" /\ sel' = NoSel
          ELSE EnterPass(new, hub, Now)
       /\ last' = [op |-> "pass", array |-> arr, ready |-> rdy, drv |-> drv,
                   req |-> [t \in Transfers |->
                              IF t \in rdy /\ DriverCalled(transfers[t])
                              THEN Request(transfers[t])
                              ELSE NoRequest],
                   now |-> Now, returned |-> done]
       /\ UNCHANGED <<hub, ticks, adds, epoch>>

\* select() was interrupted by a signal (EINTR): the loop continues.
SelectEintr ==
    /\ pc = "select"
    /\ EnterPass(transfers, hub, Now)
    /\ last' = [op |-> "eintr"]
    /\ UNCHANGED <<transfers, hub, ticks, adds, epoch>>

\* select() failed for another reason: kmo_fatalerror().
SelectFatal ==
    /\ pc = "select"
    /\ pc' = "aborted"
    /\ sel' = NoSel
    /\ last' = [op |-> "fatal"]
    /\ UNCHANGED <<transfers, hub, ticks, adds, epoch>>

AllOutcomes ==
    {NoCall} \cup UNION {DriverOutcomes(c[3][2]) : c \in UNION {Configs(t) : t \in Transfers}}

Next ==
    \/ \E t \in Transfers : \E c \in Configs(t) : Add(t, c[1], c[2], c[3], c[4])
    \/ \E t \in Transfers : Remove(t)
    \/ Wait
    \/ \E R \in SUBSET sel.read_set, W \in SUBSET sel.write_set,
          drv \in [Transfers -> AllOutcomes] : SelectReturn(R, W, drv)
    \/ SelectEintr
    \/ SelectFatal
    \/ Tick

Spec == Init /\ [][Next]_vars

(***************************************************************************)
(* The same program started in the last second a 32 bit time_t can hold    *)
(* (19 January 2038, 03:14:07 UTC). The caller uses timeouts of less than  *)
(* a second, whose deadlines stay within that second.                      *)
(***************************************************************************)
InitLate ==
    /\ transfers = [t \in Transfers |-> kmo_data_transfer_init]
    /\ hub = {}
    /\ pc = "idle"
    /\ sel = NoSel
    /\ ticks = 0
    /\ adds = 0
    /\ epoch = Timeval(TIME_MAX_SEC, LateUsec)
    /\ last = NoLast

LateConfigs(t) == {c \in Configs(t) : c[4] < 1000}

NextLate ==
    \/ \E t \in Transfers : \E c \in LateConfigs(t) : Add(t, c[1], c[2], c[3], c[4])
    \/ \E t \in Transfers : Remove(t)
    \/ Wait
    \/ \E R \in SUBSET sel.read_set, W \in SUBSET sel.write_set,
          drv \in [Transfers -> AllOutcomes] : SelectReturn(R, W, drv)
    \/ SelectEintr
    \/ SelectFatal
    \/ Tick

SpecLate == InitLate /\ [][NextLate]_vars

(***************************************************************************)
(* The same program with a clock that never stops. Past MaxTicks the clock *)
(* is kept by moving every time the program holds 1 ms back instead of     *)
(* moving the clock 1 ms forward; a time at or before the start of the     *)
(* behaviour stays where it is: it is more than 1 ms in the past, which is *)
(* all the program can tell about it. The caller uses timeouts of 1 ms, so *)
(* that every member has a finite timeout.                                 *)
(***************************************************************************)
LiveConfigs(t) == {c \in Configs(t) : c[4] = 1}

Rebase(tv) ==
    IF util_timeval_cmp(tv, epoch) <= 0
    THEN tv
    ELSE util_timeval_subtract(tv, Timeval(0, 1000))

TickLive ==
    /\ pc # "aborted"
    /\ IF ticks < MaxTicks
       THEN /\ ticks' = ticks + 1
            /\ UNCHANGED <<transfers, sel>>
       ELSE /\ ticks' = ticks
            /\ transfers' = [t \in Transfers |->
                               [transfers[t] EXCEPT !.deadline = Rebase(transfers[t].deadline)]]
            /\ sel' = [sel EXCEPT !.now = Rebase(sel.now)]
    /\ last' = NoLast
    /\ UNCHANGED <<hub, pc, adds, epoch>>

SelectReturns ==
    \E R \in SUBSET sel.read_set, W \in SUBSET sel.write_set,
       drv \in [Transfers -> AllOutcomes] : SelectReturn(R, W, drv)

NextLive ==
    \/ \E t \in Transfers : \E c \in LiveConfigs(t) : Add(t, c[1], c[2], c[3], c[4])
    \/ \E t \in Transfers : Remove(t)
    \/ Wait
    \/ SelectReturns
    \/ SelectEintr
    \/ SelectFatal
    \/ TickLive

\* Time keeps advancing, and select() returns once a descriptor is ready or its
\* duration has elapsed.
SpecLive ==
    /\ Init
    /\ [][NextLive]_vars
    /\ WF_vars(TickLive)
    /\ WF_vars(SelectReturns)

(***************************************************************************)
(* Vocabulary of the properties.                                           *)
(***************************************************************************)
\* Microseconds from the start of the behaviour to tv (tv within a few seconds of it).
Us(tv) == (tv.tv_sec - StartSec) * 1000000 + tv.tv_usec - StartUsec

\* The step is a call of kmo_transfer_hub_wait, up to its return or its first select().
WaitStep == pc = "idle" /\ last'.op = "wait"
\* The step is one pass of the loop of kmo_transfer_hub_wait after select() returned.
PassStep == pc = "select" /\ last'.op = "pass"
\* The step is a call of kmo_transfer_hub_add / kmo_transfer_hub_remove.
AddStep(t) == last'.op = "add" /\ last'.t = t
RemoveStep(t) == last'.op = "remove" /\ last'.t = t

Pending(tr) == tr.status = KMO_COMM_TRANS_PENDING
Completed(tr) == tr.status = KMO_COMM_TRANS_COMPLETED
Errored(tr) == tr.status = KMO_COMM_TRANS_ERROR
UnderFilled(tr) == Completed(tr) /\ tr.min_len < tr.max_len

(***************************************************************************)
(* C1. An under-filled Completed member (min_len <= trans_len < max_len)   *)
(* keeps being filled only by wait() calls that find a Pending member.     *)
(***************************************************************************)
\* C1 as stated: every wait() call made while an under-filled Completed transfer
\* with room left is in the hub (also as its only member) makes a pass in which the
\* transfer is selected, so that a later delivery can be added to trans_len.
C1_FilledByEveryWait ==
    [][\A t \in Transfers :
         (WaitStep /\ t \in hub /\ UnderFilled(transfers[t])
            /\ transfers[t].trans_len < transfers[t].max_len)
         => (pc' = "select" /\ t \in sel'.transfer_array)]_vars

\* C1 amended: in a pass where an under-filled Completed transfer is ready and the
\* driver returns Success(n), trans_len grows by n and the transfer stays Completed
\* without error; a wait() call selects the under-filled Completed members when some
\* member is Pending, and returns without a pass (leaving them as they are) when no
\* member is Pending, in particular when the transfer is the only member.
C1_FilledWhilePending ==
    [][\A t \in Transfers :
         /\ (PassStep /\ t \in sel.transfer_array /\ UnderFilled(transfers[t])
               /\ t \in last'.ready /\ last'.drv[t].called /\ last'.drv[t].error = 0)
            => /\ transfers'[t].trans_len = transfers[t].trans_len + last'.drv[t].nb
               /\ Completed(transfers'[t])
               /\ transfers'[t].err_msg = NULL
         /\ (WaitStep /\ t \in hub /\ UnderFilled(transfers[t]))
            => IF \E u \in hub : Pending(transfers[u])
               THEN pc' = "select" /\ t \in sel'.transfer_array
               ELSE pc' = "idle" /\ transfers' = transfers]_vars

\* Witness: min_len=4, max_len=10, 4 bytes delivered in one wait() call and 6 bytes
\* in a pass of a later one: Completed with trans_len=10 and no error.
C1_Witness ==
    /\ last.op = "pass"
    /\ "A" \in last.ready
    /\ last.drv["A"].called /\ last.drv["A"].error = 0 /\ last.drv["A"].nb = 6
    /\ transfers["A"].min_len = 4 /\ transfers["A"].max_len = 10
    /\ transfers["A"].trans_len = 10
    /\ Completed(transfers["A"])
    /\ transfers["A"].err_msg = NULL

(***************************************************************************)
(* C2. wait() returns before blocking exactly when the scan finds no       *)
(* Pending member, and after a pass exactly when a selected transfer       *)
(* changed status in that pass.                                            *)
(***************************************************************************)
C2_StatusChange(old, new) ==
    \/ Pending(old) /\ Completed(new)
    \/ (Pending(old) \/ Completed(old)) /\ Errored(new)

C2_ReturnsOnFirstEvent ==
    [][/\ WaitStep =>
            /\ pc' \in {"idle", "select"}
            /\ (pc' = "idle") <=> ~ \E t \in hub : Pending(transfers[t])
       /\ PassStep =>
            /\ pc' \in {"idle", "select"}
            /\ (pc' = "idle") <=>
                 \E t \in sel.transfer_array : transfers'[t].status # transfers[t].status
            /\ \A t \in Transfers :
                 transfers'[t].status # transfers[t].status
                 => t \in sel.transfer_array /\ C2_StatusChange(transfers[t], transfers'[t])
       /\ (pc = "select" /\ last'.op = "eintr") => pc' = "select"]_vars

\* Witness: two members with different timeouts; the ready one completed and the
\* call returned while the other, never ready, is still Pending before its deadline.
C2_Witness ==
    /\ last.op = "pass" /\ last.returned /\ pc = "idle"
    /\ hub = {"A", "B"}
    /\ "A" \in last.ready /\ "B" \notin last.ready
    /\ Completed(transfers["A"]) /\ Pending(transfers["B"])
    /\ transfers["B"].op_timeout = 1
    /\ transfers["A"].op_timeout = 1001

(***************************************************************************)
(* C3. A Pending member with timeout T > 0 that is not ready stays Pending *)
(* in a pass evaluated no later than its deadline and becomes Errored      *)
(* without message in a pass evaluated later than it.                      *)
(***************************************************************************)
C3_TimeoutAtDeadline ==
    [][\A t \in Transfers :
         /\ (AddStep(t) /\ transfers'[t].op_timeout > 0)
            => Us(transfers'[t].deadline) = Us(Now) + transfers'[t].op_timeout * 1000
         /\ (PassStep /\ t \in sel.transfer_array /\ Pending(transfers[t])
               /\ transfers[t].op_timeout > 0 /\ t \notin last'.ready)
            => IF Us(last'.now) > Us(transfers[t].deadline)
               THEN /\ Errored(transfers'[t])
                    /\ transfers'[t].err_msg = NULL
                    /\ transfers'[t].trans_len = transfers[t].trans_len
               ELSE transfers'[t] = transfers[t]]_vars

\* Witness: a member timed out in a pass in which another member was ready and its
\* driver failed.
C3_Witness ==
    /\ last.op = "pass"
    /\ \E t \in last.array \ last.ready :
         /\ Errored(transfers[t]) /\ transfers[t].err_msg = NULL
         /\ transfers[t].op_timeout > 0
         /\ \E u \in last.ready : last.drv[u].error = -1

(***************************************************************************)
(* C4. A Completed transfer with trans_len = max_len is terminal.          *)
(***************************************************************************)
\* C4 as stated: no step of wait() changes the status of a Completed transfer whose
\* trans_len equals max_len.
C4_FullCompletedIsTerminal ==
    [][\A t \in Transfers :
         (Completed(transfers[t]) /\ transfers[t].trans_len = transfers[t].max_len
            /\ (WaitStep \/ PassStep))
         => Completed(transfers'[t])]_vars

(***************************************************************************)
(* C5. trans_len of a Pending or Completed transfer never decreases, except*)
(* that add() resets it to 0.                                              *)
(***************************************************************************)
C5_TransLenMonotonic ==
    [][\A t \in Transfers :
         ((Pending(transfers[t]) \/ Completed(transfers[t]))
            /\ transfers'[t].trans_len < transfers[t].trans_len)
         => (AddStep(t) /\ t \notin hub /\ t \in hub' /\ transfers'[t].trans_len = 0)]_vars

\* Witness: a transfer that received bytes in two passes.
C5_Witness ==
    /\ last.op = "pass"
    /\ \E t \in last.ready :
         /\ last.drv[t].error = 0 /\ last.drv[t].nb > 0
         /\ transfers[t].trans_len > last.drv[t].nb
         /\ ~ Errored(transfers[t])

(***************************************************************************)
(* C6. A driver failure on a Completed member makes it Errored with the    *)
(* driver's message, ends the call after the pass and leaves trans_len.    *)
(***************************************************************************)
C6_CompletedDemoted ==
    [][\A t \in Transfers :
         (PassStep /\ t \in sel.transfer_array /\ Completed(transfers[t])
            /\ last'.drv[t].called /\ last'.drv[t].error = -1)
         => /\ Errored(transfers'[t])
            /\ transfers'[t].err_msg = last'.drv[t].msg
            /\ transfers'[t].err_msg # NULL
            /\ transfers'[t].trans_len = transfers[t].trans_len
            /\ pc' = "idle"]_vars

\* Witness: an Errored transfer holding a driver message and at least min_len > 0
\* bytes: it was Completed when the driver failed.
C6_Witness ==
    /\ last.op = "pass"
    /\ \E t \in last.ready :
         /\ last.drv[t].called /\ last.drv[t].error = -1
         /\ Errored(transfers[t]) /\ transfers[t].err_msg = last.drv[t].msg
         /\ transfers[t].min_len > 0
         /\ transfers[t].trans_len >= transfers[t].min_len
         /\ pc = "idle"

(***************************************************************************)
(* C7. A ready transfer with no byte left (max_len - trans_len = 0) gets   *)
(* no driver call and is treated as a success of 0 bytes.                  *)
(***************************************************************************)
C7_NoCallWhenFull ==
    [][\A t \in Transfers :
         (PassStep /\ t \in sel.transfer_array /\ t \in last'.ready
            /\ transfers[t].max_len - transfers[t].trans_len = 0)
         => /\ ~ last'.drv[t].called
            /\ transfers'[t].trans_len = transfers[t].trans_len
            /\ transfers'[t].err_msg = transfers[t].err_msg
            /\ transfers'[t].status =
                 (IF Pending(transfers[t]) THEN KMO_COMM_TRANS_COMPLETED
                  ELSE transfers[t].status)
            /\ (Pending(transfers[t]) => pc' = "idle")]_vars

\* Witness: min_len = max_len = 0, added, then ready in the first pass: Completed
\* with trans_len = 0 and no driver call.
C7_Witness ==
    /\ last.op = "pass"
    /\ \E t \in last.ready :
         /\ transfers[t].max_len = 0
         /\ Completed(transfers[t])
         /\ transfers[t].trans_len = 0
         /\ ~ last.drv[t].called

(***************************************************************************)
(* C8. wait() on a hub with no Pending and no under-filled Completed       *)
(* member returns without select(), without driver call, changing nothing. *)
(***************************************************************************)
C8_IdleWaitIsNoOp ==
    [][(WaitStep /\ \A t \in hub : ~ Pending(transfers[t]) /\ ~ UnderFilled(transfers[t]))
       => /\ pc' = "idle"
          /\ last'.returned
          /\ sel' = NoSel
          /\ transfers' = transfers
          /\ hub' = hub]_vars

\* Witness: wait() returned at once on a hub whose members are all finished.
C8_Witness ==
    /\ last.op = "wait" /\ last.returned
    /\ hub = {"A", "B"}
    /\ Errored(transfers["A"])
    /\ Completed(transfers["B"])

(***************************************************************************)
(* C9. remove() only takes the transfer out of the membership; a transfer  *)
(* that is not a member is not touched by wait().                          *)
(***************************************************************************)
C9_RemoveOnlyForgets ==
    [][\A t \in Transfers :
         /\ RemoveStep(t)
            => /\ hub' = hub \ {t}
               /\ transfers' = transfers
               /\ pc' = pc
         /\ ((WaitStep \/ PassStep \/ (pc = "select" /\ last'.op = "eintr")) /\ t \notin hub)
            => /\ transfers'[t] = transfers[t]
               /\ t \notin sel'.transfer_array
               /\ t \notin hub'
               /\ (last'.op = "pass" => t \notin last'.array /\ ~ last'.drv[t].called)]_vars

\* Witness: a pass ran while a transfer removed right after add() (still Pending,
\* its deadline passed) was out of the hub.
C9_Witness ==
    /\ last.op = "pass"
    /\ \E t \in Transfers \ hub :
         /\ Pending(transfers[t])
         /\ transfers[t].op_timeout = 1
         /\ Us(last.now) > Us(transfers[t].deadline)

(***************************************************************************)
(* C10. add() registers the transfer: member, Pending, trans_len 0, no     *)
(* error, deadline = now + timeout (or the maximum time when timeout is 0).*)
(***************************************************************************)
C10_AddResets ==
    [][\A t \in Transfers :
         AddStep(t)
         => /\ t \notin hub
            /\ hub' = hub \cup {t}
            /\ Pending(transfers'[t])
            /\ transfers'[t].trans_len = 0
            /\ transfers'[t].err_msg = NULL
            /\ IF transfers'[t].op_timeout = 0
               THEN transfers'[t].deadline = Timeval(2147483647, 0)
               ELSE /\ Us(transfers'[t].deadline)
                         = Us(Now) + transfers'[t].op_timeout * 1000
                    /\ transfers'[t].deadline.tv_usec \in 0 .. 999999
            /\ \A u \in Transfers \ {t} : transfers'[u] = transfers[u]]_vars

\* Witness: a transfer left Errored by an earlier registration, added again.
C10_Witness ==
    /\ last.op = "add"
    /\ last.prev = KMO_COMM_TRANS_ERROR
    /\ Pending(transfers[last.t])
    /\ transfers[last.t].op_timeout = 1001

(***************************************************************************)
(* C11. A transfer has an error message only if it is Errored; a transfer  *)
(* made Errored by a pass has a message exactly when the driver failed and *)
(* none exactly when it timed out; the assertion of line 233 never fails.  *)
(***************************************************************************)
C11_MessageOnlyWhenFailed ==
    [][/\ \A t \in Transfers : transfers'[t].err_msg # NULL => Errored(transfers'[t])
       /\ \A t \in Transfers :
            (PassStep /\ ~ Errored(transfers[t]) /\ Errored(transfers'[t]))
            => /\ t \in sel.transfer_array
               /\ (transfers'[t].err_msg # NULL)
                    <=> (t \in last'.ready /\ last'.drv[t].called /\ last'.drv[t].error = -1)
               /\ (transfers'[t].err_msg = NULL)
                    <=> (t \notin last'.ready /\ Us(last'.now) > Us(transfers[t].deadline))
       /\ \A t \in Transfers :
            (Errored(transfers[t]) /\ Errored(transfers'[t]))
            => transfers'[t].err_msg = transfers[t].err_msg
       /\ PassStep => \A t \in sel.transfer_array : transfers[t].err_msg = NULL
       /\ pc' = "aborted" => last'.op = "fatal"]_vars

\* Witness: a member made Errored with the driver's message by an earlier call and a
\* member made Errored without message by the timeout of this pass.
C11_Witness ==
    /\ last.op = "pass"
    /\ hub = {"A", "B"}
    /\ Errored(transfers["A"]) /\ transfers["A"].err_msg \in ErrMsgs
    /\ "A" \notin last.array
    /\ "B" \in last.array \ last.ready
    /\ Errored(transfers["B"]) /\ transfers["B"].err_msg = NULL
    /\ pc = "idle"

C13_DeadlineMovesOnlyWithBytes ==
    [][\A t \in Transfers :
         (PassStep /\ transfers'[t].deadline # transfers[t].deadline)
         => /\ t \in last'.ready
            /\ last'.drv[t].called
            /\ last'.drv[t].error = 0
            /\ last'.drv[t].nb > 0]_vars

(***************************************************************************)
(* C14. A transfer registered with timeout 0 never times out, whatever the *)
(* current time.                                                           *)
(***************************************************************************)
\* C14 as stated, for a clock in the last second of a 32 bit time_t: a pass in which
\* a member with op_timeout = 0 is not ready leaves it as it is (no pass makes it
\* Errored by timeout).
C14_NoTimeoutNeverExpires ==
    [][\A t \in Transfers :
         (PassStep /\ t \in sel.transfer_array /\ transfers[t].op_timeout = 0
            /\ t \notin last'.ready)
         => transfers'[t] = transfers[t]]_vars

(***************************************************************************)
(* C15. The duration given to select() is max(1 ms, D - now), D the        *)
(* earliest deadline of the selected transfers (Pending members and        *)
(* Completed members with min_len < max_len) and now the time read before  *)
(* blocking; it is never zero or negative.                                 *)
(***************************************************************************)
C15_Max(a, b) == IF a >= b THEN a ELSE b

C15_WaitDuration ==
    [][(pc' = "select" /\ last'.op \in {"wait", "pass", "eintr"})
       => LET arr == {t \in hub' : Pending(transfers'[t]) \/ UnderFilled(transfers'[t])}
              fin == {t \in arr : transfers'[t].op_timeout > 0}
              ttw == sel'.time_to_wait
          IN /\ sel'.transfer_array = arr
             /\ sel'.now = Now'
             /\ ttw.tv_sec >= 0
             /\ ttw.tv_usec \in 0 .. 999999
             /\ ttw # Timeval(0, 0)
             /\ IF fin = {}
                THEN util_timeval_add(ttw, sel'.now) = Timeval(2147483647, 0)
                ELSE \E t \in fin :
                       /\ \A u \in fin :
                            Us(transfers'[t].deadline) <= Us(transfers'[u].deadline)
                       /\ ttw.tv_sec * 1000000 + ttw.tv_usec
                            = C15_Max(1000, Us(transfers'[t].deadline) - Us(Now'))]_vars

\* Witness: wait() blocks for 1 ms on a member whose deadline has already passed.
C15_Witness ==
    /\ pc = "select"
    /\ last.op = "wait"
    /\ \E t \in sel.transfer_array :
         /\ transfers[t].op_timeout > 0
         /\ Us(transfers[t].deadline) < Us(sel.now)
    /\ sel.time_to_wait = Timeval(0, 1000)

(***************************************************************************)
(* C16. Every success of a ready transfer with op_timeout T > 0 (also of 0 *)
(* bytes, also without driver call) sets its deadline to the time read     *)
(* after select() plus T; nothing but add() and such a success changes a   *)
(* deadline.                                                               *)
(***************************************************************************)
C16_Success(t) ==
    /\ PassStep
    /\ t \in sel.transfer_array
    /\ t \in last'.ready
    /\ (~ last'.drv[t].called \/ last'.drv[t].error = 0)

C17_ErroredIsLeftAlone ==
    [][\A t \in Transfers :
         Errored(transfers[t])
         => /\ (transfers'[t] # transfers[t]) => (AddStep(t) /\ t \notin hub)
            /\ (last'.op = "pass") => (t \notin last'.array /\ ~ last'.drv[t].called)
            /\ (pc' = "select" /\ last'.op \in {"wait", "pass", "eintr"})
               => LET others == {u \in hub' \ {t} :
                                   Pending(transfers'[u]) \/ UnderFilled(transfers'[u])}
                  IN /\ sel'.transfer_array = others
                     /\ sel'.read_set
                          = {transfers'[u].fd : u \in {v \in others : transfers'[v].read_flag # 0}}
                     /\ sel'.write_set
                          = {transfers'[u].fd : u \in {v \in others : transfers'[v].read_flag = 0}}
                     /\ sel'.time_to_wait
                          = TimeToWait(Now', ScanDeadline(transfers', hub' \ {t}))]_vars

\* Witness: wait() blocks on a Pending member without timeout while a member that
\* timed out earlier, its deadline passed, is still in the hub: the duration is not
\* the 1 ms of a passed deadline.
C17_Witness ==
    /\ pc = "select"
    /\ last.op = "wait"
    /\ \E t \in hub :
         /\ Errored(transfers[t])
         /\ transfers[t].op_timeout = 1
         /\ Us(transfers[t].deadline) < Us(sel.now)
         /\ t \notin sel.transfer_array
         /\ transfers[t].fd \notin sel.read_set \cup sel.write_set
    /\ sel.time_to_wait.tv_sec > 0

(***************************************************************************)
(* C18. A WouldBlock outcome changes no field of the transfer and is no    *)
(* event; an interrupted select() (EINTR) changes no field of any transfer *)
(* and restarts the pass from the scan without the call returning.         *)
(***************************************************************************)
C18_WouldBlock(t) ==
    /\ t \in last'.ready
    /\ last'.drv[t].called
    /\ last'.drv[t].error = -2

C18_NonEventsChangeNothing ==
    [][/\ \A t \in Transfers :
            (PassStep /\ t \in sel.transfer_array /\ C18_WouldBlock(t))
            => transfers'[t] = transfers[t]
       /\ (PassStep /\ \A t \in sel.transfer_array :
                          \/ C18_WouldBlock(t)
                          \/ t \notin last'.ready /\ transfers'[t] = transfers[t])
          => /\ ~ last'.returned
             /\ pc' = "select"
             /\ transfers' = transfers
       /\ (pc = "select" /\ last'.op = "eintr")
          => /\ transfers' = transfers
             /\ hub' = hub
             /\ pc' = "select"
             /\ sel'.transfer_array = sel.transfer_array
             /\ sel'.read_set = sel.read_set
             /\ sel'.write_set = sel.write_set
             /\ sel'.now = Now]_vars

\* Witness: a Pending member was ready after its deadline and its driver would
\* block: it is still Pending and the call is blocked in select() again.
C18_Witness ==
    /\ last.op = "pass" /\ ~ last.returned
    /\ pc = "select"
    /\ \E t \in last.ready :
         /\ last.drv[t].called /\ last.drv[t].error = -2
         /\ Pending(transfers[t])
         /\ transfers[t].op_timeout = 1
         /\ Us(last.now) > Us(transfers[t].deadline)
         /\ t \in sel.transfer_array

(***************************************************************************)
(* C19. trans_len <= max_len for every registered transfer, the driver     *)
(* never reporting more bytes than it was asked for; each driver call asks *)
(* for exactly max_len - trans_len bytes at offset trans_len, so the hub   *)
(* stays within the max_len bytes of the buffer.                           *)
(***************************************************************************)
C19_WithinMaxLen ==
    [][\A t \in Transfers :
         /\ transfers'[t].status # KMO_COMM_TRANS_NONE
            => /\ transfers'[t].trans_len >= 0
               /\ transfers'[t].trans_len <= transfers'[t].max_len
         /\ (PassStep /\ last'.drv[t].called)
            => /\ last'.req[t].off = transfers[t].trans_len
               /\ last'.req[t].len = transfers[t].max_len - transfers[t].trans_len
               /\ last'.req[t].len > 0
               /\ last'.req[t].off + last'.drv[t].nb <= transfers[t].max_len
               /\ last'.drv[t].error = 0
                  => transfers'[t].trans_len = last'.req[t].off + last'.drv[t].nb]_vars

\* Witness: max_len = 10 filled in three calls of the driver; the last one was asked
\* for the 2 bytes left at offset 8.
C19_Witness ==
    /\ last.op = "pass"
    /\ \E t \in last.ready :
         /\ last.drv[t].called /\ last.drv[t].error = 0 /\ last.drv[t].nb = 2
         /\ last.req[t] = [off |-> 8, len |-> 2]
         /\ transfers[t].max_len = 10
         /\ transfers[t].trans_len = 10

(***************************************************************************)
(* C20. When every Pending member has a finite timeout and time keeps      *)
(* advancing, every call of wait() returns, whatever the descriptors and   *)
(* the drivers do.                                                         *)
(***************************************************************************)
\* C20 as stated: a call of wait() blocked in select() leaves the loop at some time.
C20_WaitReturns == (pc = "select") ~> (pc # "select")

====
